---- MODULE Spec2Model ----
(***************************************************************************)
(* Model of transcriptor.py: the batch transcriber's main() with its       *)
(* retry/backoff loop, the continue-vs-abort policy and the transcript     *)
(* writes.  The transcription call is an external collaborator: each call  *)
(* either returns a text or raises an exception with a message.            *)
(*                                                                         *)
(* Scope of the environment: --delay is a non-negative number of time      *)
(* units (doubling is exact), and mkdir, rglob and write_text do not       *)
(* raise.  The output directory starts without transcripts.                *)
(***************************************************************************)
EXTENDS Integers, Sequences, FiniteSets

\* ---------------------------------------------------------------- bounds
MaxFiles == 2
MaxRetriesBound == 3
MaxDelay == 1
MaxMsgLen == 5

\* ------------------------------------------------------- value domains
\* Optional values: None is the empty tuple, Some(v) a one-element tuple.
None == << >>
Some(v) == << v >>

\* Input paths: directory part and stem of a *.mp3 file below the source.
Paths ==
  { [dir |-> "a", stem |-> "ep"],
    [dir |-> "b", stem |-> "ep"],
    [dir |-> "a", stem |-> "news"] }

\* Texts the transcription call can return (response.get("text", "")).
Texts == { "", "hello" }

\* Exception messages str(e), as sequences of characters: a quota error
\* and an authentication error.
ErrMessages ==
  { << "Q", "u", "o", "t", "a" >>,
    << "4", "0", "1" >> }

\* What the source path is on disk.
SourceKinds == { "missing", "mp3file", "otherfile", "dir" }

\* --------------------------------------------------------- pure helpers
\* str.lower() on one character of the modelled alphabet.
LowerChar(c) ==
  CASE c = "Q" -> "q"
    [] c = "U" -> "u"
    [] c = "O" -> "o"
    [] c = "T" -> "t"
    [] c = "A" -> "a"
    [] OTHER -> c

Lower(s) == [k \in 1..Len(s) |-> LowerChar(s[k])]

\* Python's `sub in s` on character sequences.
Contains(s, sub) ==
  \E k \in 0..(Len(s) - Len(sub)) :
    \A j \in 1..Len(sub) : s[k + j] = sub[j]

\* mutant: the quota keyword is matched case-sensitively
IsRateLimit_CaseSensitive(err_str) ==
  \/ Contains(err_str, << "4", "2", "9" >>)
  \/ Contains(err_str, << "q", "u", "o", "t", "a" >>)

\* line 106: "429" in err_str or "quota" in err_str.lower()
IsRateLimit(err_str) ==
  \/ Contains(err_str, << "4", "2", "9" >>)
  \/ Contains(Lower(err_str), << "q", "u", "o", "t", "a" >>)

\* line 130: output_dir / f"{audio_path.stem}.txt" -- the directory part of
\* the input path is dropped, the extension replaced.
OutPath(audio_path) == [dir |-> "out", stem |-> audio_path.stem, ext |-> "txt"]

OutPaths == { OutPath(p) : p \in Paths }

\* rglob("*.mp3") on a directory: some sequence of distinct paths.
IsInjective(s) == \A i, j \in 1..Len(s) : i # j => s[i] # s[j]

find_audio_files ==
  { s \in UNION { [1..n -> Paths] : n \in 0..MaxFiles } : IsInjective(s) }

\* ------------------------------------------------------------- variables
VARIABLES
  pc,              \* position in main()
  sourceKind,      \* what args.input points at
  max_retries,     \* args.max_retries
  delay,           \* args.delay
  continue_on_error, \* args.continue_on_error
  outputDirMade,   \* output_dir.mkdir has run
  audio_files,     \* the discovered sequence
  idx,             \* enumerate index of the current file (0 before the loop)
  retries,         \* remaining budget of the current file
  backoff,         \* current backoff of the current file
  transcript,      \* None or Some(text)
  calls,           \* per position: outcomes of the transcription calls
  sleeps,          \* per position: durations passed to time.sleep
  fs,              \* output directory: OutPath -> None or Some(content)
  writes,          \* write_text calls, in order
  stdout,          \* printed lines, in order
  exitStatus       \* None while running, Some(code) once exited

config == << sourceKind, max_retries, delay, continue_on_error >>
locals == << idx, retries, backoff, transcript >>
history == << calls, sleeps, writes >>
vars == << pc, sourceKind, max_retries, delay, continue_on_error, outputDirMade,
           audio_files, idx, retries, backoff, transcript, calls, sleeps, fs,
           writes, stdout, exitStatus >>

total == Len(audio_files)
audio_path == audio_files[idx]

Positions == 1..MaxFiles

\* sys.exit(code)
Exit(code) ==
  /\ pc' = "exited"
  /\ exitStatus' = Some(code)

Output(line) == stdout' = Append(stdout, line)

\* ------------------------------------------------------------------ Init
Init ==
  /\ pc = "start"
  /\ sourceKind \in SourceKinds
  /\ max_retries \in (0 - 1)..MaxRetriesBound
  /\ delay \in 0..MaxDelay
  /\ continue_on_error \in BOOLEAN
  /\ outputDirMade = FALSE
  /\ audio_files = << >>
  /\ idx = 0
  /\ retries = 0
  /\ backoff = 0
  /\ transcript = None
  /\ calls = [i \in Positions |-> << >>]
  /\ sleeps = [i \in Positions |-> << >>]
  /\ fs = [o \in OutPaths |-> None]
  /\ writes = << >>
  /\ stdout = << >>
  /\ exitStatus = None

\* ------------------------------------------------- observations on a run
Max(a, b) == IF a >= b THEN a ELSE b

RECURSIVE Pow2(_)
Pow2(n) == IF n <= 0 THEN 1 ELSE 2 * Pow2(n - 1)

Started == 1..idx

LastCall(i) == calls[i][Len(calls[i])]

\* the k-th call for the file at position i raised a rate-limit/quota error
RaisedRateLimit(i, k) == ~calls[i][k].ok /\ IsRateLimit(calls[i][k].val)

\* the k-th call for the file at position i raised another error
RaisedOther(i, k) == ~calls[i][k].ok /\ ~IsRateLimit(calls[i][k].val)

AllRateLimited(i) == \A k \in 1..Len(calls[i]) : RaisedRateLimit(i, k)

\* the file's calls ended with a non-retryable error
NonRetryableFailure(i) ==
  /\ calls[i] # << >>
  /\ RaisedOther(i, Len(calls[i]))

\* every call allowed by the budget raised a rate-limit/quota error
RetriesExhausted(i) ==
  /\ AllRateLimited(i)
  /\ Len(calls[i]) >= max_retries

FatalFailure(i) == NonRetryableFailure(i) \/ RetriesExhausted(i)

\* the for loop has left the iteration of position i
Resolved(i) == i < idx \/ (i = idx /\ pc \in { "for", "exited" })

WritesOf(i) == { k \in 1..Len(writes) : writes[k].pos = i }

NoWorkDone ==
  /\ \A i \in Positions : calls[i] = << >> /\ sleeps[i] = << >>
  /\ writes = << >>
  /\ \A o \in OutPaths : fs[o] = None


\* mutant: the missing path is reported but the run goes on
CheckSource_NoExit ==
  /\ pc = "start"
  /\ IF sourceKind = "missing"
       THEN Output(<< "nopath" >>)
       ELSE UNCHANGED stdout
  /\ pc' = "mkdir"
  /\ UNCHANGED << config, outputDirMade, audio_files, locals, history, fs,
                  exitStatus >>

\* --------------------------------------------------------------- actions
\* lines 74-76
CheckSource ==
  /\ pc = "start"
  /\ IF sourceKind = "missing"
       THEN /\ Output(<< "nopath" >>)
            /\ Exit(1)
       ELSE /\ pc' = "mkdir"
            /\ UNCHANGED << stdout, exitStatus >>
  /\ UNCHANGED << config, outputDirMade, audio_files, locals, history, fs >>

\* lines 79-80
MakeOutputDir ==
  /\ pc = "mkdir"
  /\ outputDirMade' = TRUE
  /\ pc' = "collect"
  /\ UNCHANGED << config, audio_files, locals, history, fs, stdout, exitStatus >>

\* lines 83-86: the one file itself, or what rglob finds below the source
\* (nothing below a file that is not an .mp3)
Collected ==
  IF sourceKind = "mp3file" THEN { << source >> : source \in Paths }
  ELSE IF sourceKind = "otherfile" THEN { << >> }
  ELSE find_audio_files


\* mutant: an empty discovery is treated as an error
CollectAudioFiles_ExitOne ==
  /\ pc = "collect"
  /\ \E found \in Collected : audio_files' = found
  /\ IF audio_files' = << >>
       THEN /\ Output(<< "nofiles" >>)
            /\ Exit(1)
       ELSE /\ pc' = "for"
            /\ UNCHANGED << stdout, exitStatus >>
  /\ UNCHANGED << config, outputDirMade, locals, history, fs >>

\* lines 83-90
CollectAudioFiles ==
  /\ pc = "collect"
  /\ \E found \in Collected : audio_files' = found
  /\ IF audio_files' = << >>
       THEN /\ Output(<< "nofiles" >>)
            /\ Exit(0)
       ELSE /\ pc' = "for"
            /\ UNCHANGED << stdout, exitStatus >>
  /\ UNCHANGED << config, outputDirMade, locals, history, fs >>


\* mutant: the transcript of the previous file is not cleared
NextFile_KeepsTranscript ==
  /\ pc = "for"
  /\ idx < total
  /\ idx' = idx + 1
  /\ Output(<< "progress", idx + 1, total, audio_files[idx + 1] >>)
  /\ retries' = max_retries
  /\ backoff' = delay
  /\ pc' = "while"
  /\ UNCHANGED << config, outputDirMade, audio_files, transcript, history, fs,
                  exitStatus >>

\* mutant: max-retries counts the retries after a first attempt
NextFile_ExtraAttempt ==
  /\ pc = "for"
  /\ idx < total
  /\ idx' = idx + 1
  /\ Output(<< "progress", idx + 1, total, audio_files[idx + 1] >>)
  /\ retries' = max_retries + 1
  /\ backoff' = delay
  /\ transcript' = None
  /\ pc' = "while"
  /\ UNCHANGED << config, outputDirMade, audio_files, history, fs, exitStatus >>

\* mutant: the progress index is the 0-based position
NextFile_ZeroBasedProgress ==
  /\ pc = "for"
  /\ idx < total
  /\ idx' = idx + 1
  /\ Output(<< "progress", idx, total, audio_files[idx + 1] >>)
  /\ retries' = max_retries
  /\ backoff' = delay
  /\ transcript' = None
  /\ pc' = "while"
  /\ UNCHANGED << config, outputDirMade, audio_files, history, fs, exitStatus >>

\* mutant: the backoff is set once before the loop and carried over
NextFile_KeepsBackoff ==
  /\ pc = "for"
  /\ idx < total
  /\ idx' = idx + 1
  /\ Output(<< "progress", idx + 1, total, audio_files[idx + 1] >>)
  /\ retries' = max_retries
  /\ backoff' = IF idx = 0 THEN delay ELSE backoff
  /\ transcript' = None
  /\ pc' = "while"
  /\ UNCHANGED << config, outputDirMade, audio_files, history, fs, exitStatus >>

\* lines 94-98: the next iteration of the for loop starts
NextFile ==
  /\ pc = "for"
  /\ idx < total
  /\ idx' = idx + 1
  /\ Output(<< "progress", idx + 1, total, audio_files[idx + 1] >>)
  /\ retries' = max_retries
  /\ backoff' = delay
  /\ transcript' = None
  /\ pc' = "while"
  /\ UNCHANGED << config, outputDirMade, audio_files, history, fs, exitStatus >>


\* mutant: the run fails at the end when some file failed
AllDone_FailsIfAnyFailed ==
  /\ pc = "for"
  /\ idx = total
  /\ Output(<< "alldone" >>)
  /\ Exit(IF \E i \in Started : FatalFailure(i) THEN 1 ELSE 0)
  /\ UNCHANGED << config, outputDirMade, audio_files, locals, history, fs >>

\* mutant: the end of the loop reports nothing
AllDone_Silent ==
  /\ pc = "for"
  /\ idx = total
  /\ Exit(0)
  /\ UNCHANGED << config, outputDirMade, audio_files, locals, history, fs,
                  stdout >>

\* line 134: the for loop is exhausted
AllDone ==
  /\ pc = "for"
  /\ idx = total
  /\ Output(<< "alldone" >>)
  /\ Exit(0)
  /\ UNCHANGED << config, outputDirMade, audio_files, locals, history, fs >>

\* mutant: the first call is made before the budget is tested
TranscribeReturns_AtLeastOnce ==
  /\ pc = "while"
  /\ (retries > 0 \/ calls[idx] = << >>)
  /\ \E text \in Texts :
       /\ calls' = [calls EXCEPT ![idx] = Append(@, [ok |-> TRUE, val |-> text])]
       /\ transcript' = Some(text)
  /\ pc' = "check"
  /\ UNCHANGED << config, outputDirMade, audio_files, idx, retries, backoff,
                  sleeps, writes, fs, stdout, exitStatus >>

\* lines 100-103: the call returns a text
TranscribeReturns ==
  /\ pc = "while"
  /\ retries > 0
  /\ \E text \in Texts :
       /\ calls' = [calls EXCEPT ![idx] = Append(@, [ok |-> TRUE, val |-> text])]
       /\ transcript' = Some(text)
  /\ pc' = "check"
  /\ UNCHANGED << config, outputDirMade, audio_files, idx, retries, backoff,
                  sleeps, writes, fs, stdout, exitStatus >>


\* mutant: the backoff grows linearly
RateLimitHandler_Linear(err_str) ==
  /\ IsRateLimit(err_str)
  /\ Output(<< "ratelimit", backoff, retries - 1 >>)
  /\ sleeps' = [sleeps EXCEPT ![idx] = Append(@, backoff)]
  /\ backoff' = backoff + delay
  /\ retries' = retries - 1
  /\ pc' = "while"
  /\ UNCHANGED << transcript, exitStatus >>

\* mutant: the budget is not decremented
RateLimitHandler_NoDecrement(err_str) ==
  /\ IsRateLimit(err_str)
  /\ Output(<< "ratelimit", backoff, retries - 1 >>)
  /\ sleeps' = [sleeps EXCEPT ![idx] = Append(@, backoff)]
  /\ backoff' = backoff * 2
  /\ pc' = "while"
  /\ UNCHANGED << retries, transcript, exitStatus >>

\* lines 104-113: the call raises a rate-limit/quota error
RateLimitHandler(err_str) ==
  /\ IsRateLimit(err_str)
  /\ Output(<< "ratelimit", backoff, retries - 1 >>)
  /\ sleeps' = [sleeps EXCEPT ![idx] = Append(@, backoff)]
  /\ backoff' = backoff * 2
  /\ retries' = retries - 1
  /\ pc' = "while"
  /\ UNCHANGED << transcript, exitStatus >>


\* mutant: any other error is retried after a backoff as well
OtherErrorHandler_Retries(err_str) ==
  /\ ~IsRateLimit(err_str)
  /\ Output(<< "error", audio_path.stem >>)
  /\ sleeps' = [sleeps EXCEPT ![idx] = Append(@, backoff)]
  /\ backoff' = backoff * 2
  /\ retries' = retries - 1
  /\ pc' = "while"
  /\ UNCHANGED << transcript, exitStatus >>

\* lines 114-118: the call raises any other error
OtherErrorHandler(err_str) ==
  /\ ~IsRateLimit(err_str)
  /\ Output(<< "error", audio_path.stem >>)
  /\ IF ~continue_on_error
       THEN Exit(1)
       ELSE /\ pc' = "check"
            /\ UNCHANGED exitStatus
  /\ UNCHANGED << retries, backoff, sleeps, transcript >>

\* lines 100-118: the call raises an exception with one of the messages
Raises(messages) ==
  /\ pc = "while"
  /\ retries > 0
  /\ \E err_str \in messages :
       /\ calls' = [calls EXCEPT ![idx] = Append(@, [ok |-> FALSE, val |-> err_str])]
       /\ \/ RateLimitHandler(err_str)
          \/ OtherErrorHandler(err_str)
  /\ UNCHANGED << config, outputDirMade, audio_files, idx, writes, fs >>

\* lines 100-118: the call raises
TranscribeRaises == Raises(ErrMessages)

\* line 100: the while condition is false
WhileExit ==
  /\ pc = "while"
  /\ ~(retries > 0)
  /\ pc' = "check"
  /\ UNCHANGED << config, outputDirMade, audio_files, locals, history, fs,
                  stdout, exitStatus >>


\* mutant: a failed file never ends the run
TranscriptMissing_NeverExits ==
  /\ pc = "check"
  /\ transcript = None
  /\ Output(<< "failed", audio_path.stem, max_retries >>)
  /\ pc' = "for"
  /\ UNCHANGED << config, outputDirMade, audio_files, locals, history, fs,
                  exitStatus >>

\* mutant: a failed file always ends the run
TranscriptMissing_AlwaysExits ==
  /\ pc = "check"
  /\ transcript = None
  /\ Output(<< "failed", audio_path.stem, max_retries >>)
  /\ Exit(1)
  /\ UNCHANGED << config, outputDirMade, audio_files, locals, history, fs >>

\* mutant: the test is `if not transcript`, which an empty text fails too
TranscriptMissing_Truthy ==
  /\ pc = "check"
  /\ (transcript = None \/ transcript = Some(""))
  /\ Output(<< "failed", audio_path.stem, max_retries >>)
  /\ IF ~continue_on_error
       THEN Exit(1)
       ELSE /\ pc' = "for"
            /\ UNCHANGED exitStatus
  /\ UNCHANGED << config, outputDirMade, audio_files, locals, history, fs >>

\* lines 120-127
TranscriptMissing ==
  /\ pc = "check"
  /\ transcript = None
  /\ Output(<< "failed", audio_path.stem, max_retries >>)
  /\ IF ~continue_on_error
       THEN Exit(1)
       ELSE /\ pc' = "for"
            /\ UNCHANGED exitStatus
  /\ UNCHANGED << config, outputDirMade, audio_files, locals, history, fs >>

\* lines 129-132
SaveTranscript ==
  /\ pc = "check"
  /\ transcript # None
  /\ LET out_path == OutPath(audio_path) IN
       /\ fs' = [fs EXCEPT ![out_path] = transcript]
       /\ writes' = Append(writes, [pos |-> idx, path |-> out_path,
                                    content |-> transcript[1]])
       /\ Output(<< "saved", out_path >>)
  /\ pc' = "for"
  /\ UNCHANGED << config, outputDirMade, audio_files, locals, calls, sleeps,
                  exitStatus >>

Next ==
  \/ CheckSource
  \/ MakeOutputDir
  \/ CollectAudioFiles
  \/ NextFile
  \/ AllDone
  \/ TranscribeReturns
  \/ TranscribeRaises
  \/ WhileExit
  \/ TranscriptMissing
  \/ SaveTranscript

Spec == Init /\ [][Next]_vars

\* Every call and every sleep returns and the single thread keeps running.
FairSpec == Spec /\ WF_vars(Next)

\* ------------------------------------------ classification of one error
\* The first call for a single discovered file raises an exception whose
\* message is any character sequence up to MaxMsgLen over Alphabet.
Alphabet == { "4", "2", "9", "q", "Q", "u", "o", "t", "a" }

Messages == UNION { [1..n -> Alphabet] : n \in 0..MaxMsgLen }

\* the state after lines 94-98 for the only file of the run
ClassifyInit ==
  /\ pc = "while"
  /\ sourceKind = "mp3file"
  /\ max_retries = MaxRetriesBound
  /\ delay = MaxDelay
  /\ continue_on_error \in BOOLEAN
  /\ outputDirMade = TRUE
  /\ audio_files = << [dir |-> "a", stem |-> "ep"] >>
  /\ idx = 1
  /\ retries = max_retries
  /\ backoff = delay
  /\ transcript = None
  /\ calls = [i \in Positions |-> << >>]
  /\ sleeps = [i \in Positions |-> << >>]
  /\ fs = [o \in OutPaths |-> None]
  /\ writes = << >>
  /\ stdout = << << "progress", 1, 1, audio_files[1] >> >>
  /\ exitStatus = None

ClassifyNext == calls[idx] = << >> /\ Raises(Messages)

ClassifySpec == ClassifyInit /\ [][ClassifyNext]_vars

\* ---------------------------------------------------------------- claims

\* C1: with continue-on-error false, once a file has ended in a fatal
\* failure (a non-retryable error or an exhausted budget) no transcription
\* call, sleep or write follows, nothing was written for that file, no later
\* file was started, and the process ends with exit status 1.
C1_AbortOnFirstFatal ==
  /\ [](\A i \in Started :
          (~continue_on_error /\ FatalFailure(i)) =>
            /\ i = idx
            /\ WritesOf(i) = { }
            /\ \A j \in Positions : j > i => calls[j] = << >>
            /\ pc = "exited" => exitStatus = Some(1))
  /\ [][(~continue_on_error /\ \E i \in Started : FatalFailure(i)) =>
          (calls' = calls /\ sleeps' = sleeps /\ writes' = writes /\ fs' = fs
           /\ idx' = idx)]_vars
  /\ ((~continue_on_error /\ \E i \in Started : FatalFailure(i))
        ~> (pc = "exited" /\ exitStatus = Some(1)))

C1_Witness ==
  /\ ~continue_on_error
  /\ pc = "exited"
  /\ exitStatus = Some(1)
  /\ idx = 1
  /\ total = 2
  /\ Len(calls[1]) = 2
  /\ RetriesExhausted(1)

\* C2: with continue-on-error true, every discovered file is eventually
\* attempted (its iteration starts, and a transcription call is made for it
\* when the budget allows one), whatever the earlier files did, and nothing
\* is written for a file that failed.
C2_ContinueAfterFatal ==
  /\ [](continue_on_error =>
          \A i \in Started : (Resolved(i) /\ FatalFailure(i)) => WritesOf(i) = { })
  /\ \A i \in Positions :
       (continue_on_error /\ pc = "for" /\ i <= total)
         ~> (idx >= i /\ (max_retries >= 1 => calls[i] # << >>))

C2_Witness ==
  /\ continue_on_error
  /\ total = 2
  /\ idx = 2
  /\ FatalFailure(1)
  /\ WritesOf(1) = { }
  /\ calls[2] # << >>

\* C3: a transcript is written for a file only after its last call returned,
\* at most once, to <output_dir>/<stem>.txt, with exactly the returned text;
\* nothing is written for a file that ended in failure, and the output
\* directory holds only what the writes put there.
C3_WriteOnlyOnSuccess ==
  /\ \A k \in 1..Len(writes) :
       LET i == writes[k].pos IN
         /\ i \in Started
         /\ calls[i] # << >>
         /\ LastCall(i).ok
         /\ writes[k].content = LastCall(i).val
         /\ writes[k].path = OutPath(audio_files[i])
         /\ WritesOf(i) = { k }
  /\ \A i \in Started : FatalFailure(i) => WritesOf(i) = { }
  /\ \A o \in OutPaths :
       LET ks == { k \in 1..Len(writes) : writes[k].path = o } IN
         IF ks = { } THEN fs[o] = None
         ELSE fs[o] = Some(writes[CHOOSE k \in ks : \A m \in ks : m <= k].content)

C3_Witness ==
  /\ pc = "exited"
  /\ total = 2
  /\ FatalFailure(1)
  /\ WritesOf(2) # { }
  /\ Len(calls[2]) = 2
  /\ fs[OutPath(audio_files[2])] = Some("hello")

\* C4 (as stated, read for a non-negative max-retries): the number of calls
\* for a file never exceeds max-retries and equals max-retries exactly when
\* every call for it raised a rate-limit/quota error.
C4_Original ==
  max_retries >= 0 =>
    \A i \in Started :
      /\ Len(calls[i]) <= max_retries
      /\ Resolved(i) => (Len(calls[i]) = max_retries <=> AllRateLimited(i))

\* C4 (amended): the number of calls for a file never exceeds max-retries
\* (none is made when max-retries is zero or negative); every call but the
\* last raised a rate-limit/quota error; and a file all of whose calls
\* raised a rate-limit/quota error ends with exactly max(max-retries, 0)
\* calls.
C4_CallsBounded ==
  \A i \in Started :
    /\ Len(calls[i]) <= Max(max_retries, 0)
    /\ \A k \in 1..(Len(calls[i]) - 1) : RaisedRateLimit(i, k)
    /\ (Resolved(i) /\ AllRateLimited(i)) => Len(calls[i]) = Max(max_retries, 0)

C4_Witness ==
  /\ max_retries = 2
  /\ Resolved(1)
  /\ Len(calls[1]) = 2
  /\ LastCall(1).ok
  /\ Resolved(2)
  /\ Len(calls[2]) = 2
  /\ AllRateLimited(2)

\* C5: the k-th backoff sleep of a file lasts delay * 2^(k-1).
C5_ExponentialBackoff ==
  \A i \in Positions :
    \A k \in 1..Len(sleeps[i]) : sleeps[i][k] = delay * Pow2(k - 1)

C5_Witness ==
  /\ delay = 1
  /\ sleeps[1] = << 1, 2, 4 >>

\* C6: a non-retryable error is the last call of its file and is followed
\* by no sleep: the file has slept once per rate-limit error before it.
C6_NoRetryAfterOther ==
  /\ [](\A i \in Started :
          \A k \in 1..Len(calls[i]) :
            RaisedOther(i, k) =>
              /\ k = Len(calls[i])
              /\ Len(sleeps[i]) = k - 1)
  /\ [][\A i \in Started :
          NonRetryableFailure(i) => (calls'[i] = calls[i] /\ sleeps'[i] = sleeps[i])]_vars

C6_Witness ==
  /\ continue_on_error
  /\ max_retries = 3
  /\ idx = 2
  /\ Len(calls[1]) = 2
  /\ NonRetryableFailure(1)
  /\ Len(sleeps[1]) = 1
  /\ calls[2] # << >>

\* C7: the exit status is 1 exactly when the input path is missing, or
\* continue-on-error is false and a file ended in a fatal failure; otherwise
\* it is 0.
C7_ExitStatus ==
  pc = "exited" =>
    /\ exitStatus \in { Some(0), Some(1) }
    /\ exitStatus = Some(1) <=>
         \/ sourceKind = "missing"
         \/ ~continue_on_error /\ \E i \in Started : FatalFailure(i)

C7_Witness ==
  /\ pc = "exited"
  /\ continue_on_error
  /\ exitStatus = Some(0)
  /\ NonRetryableFailure(1)
  /\ RetriesExhausted(2)
  /\ calls[2] # << >>

\* C8: with a missing input path the run ends with exit status 1 without
\* creating the output directory, calling the transcription or writing.
C8_MissingInput ==
  sourceKind = "missing" =>
    /\ pc \in { "start", "exited" }
    /\ pc = "exited" => exitStatus = Some(1)
    /\ ~outputDirMade
    /\ audio_files = << >>
    /\ NoWorkDone

C8_Witness ==
  /\ sourceKind = "missing"
  /\ pc = "exited"
  /\ exitStatus = Some(1)

\* C9: when discovery yields no audio file the run ends right there with
\* exit status 0 and no call, sleep or write, whatever the flags.
C9_NoFiles ==
  (sourceKind # "missing" /\ pc \notin { "start", "mkdir", "collect" }
   /\ audio_files = << >>) =>
    /\ pc = "exited"
    /\ exitStatus = Some(0)
    /\ idx = 0
    /\ NoWorkDone

C9_Witness ==
  /\ sourceKind = "dir"
  /\ audio_files = << >>
  /\ pc = "exited"
  /\ exitStatus = Some(0)
  /\ ~continue_on_error
  /\ max_retries = 0

\* C10 (as stated): two different discovered files are never written to the
\* same transcript path.
C10_DistinctTargets ==
  \A k, m \in 1..Len(writes) :
    writes[k].pos # writes[m].pos => writes[k].path # writes[m].path

\* the progress lines printed so far, in order
ProgressLines == SelectSeq(stdout, LAMBDA line : line[1] = "progress")

\* C11: files are processed one at a time in discovery order: only the
\* current file's calls and sleeps grow and only it is written, nothing has
\* happened for a later file, the loop moves on by one position and only
\* once the current file is finished, and the k-th progress line reports
\* index k, the total and the k-th discovered file.
C11_Sequential ==
  /\ [](/\ \A j \in Positions :
             j > idx => (calls[j] = << >> /\ sleeps[j] = << >> /\ WritesOf(j) = { })
        /\ Len(ProgressLines) = idx
        /\ \A k \in 1..Len(ProgressLines) :
             ProgressLines[k] = << "progress", k, total, audio_files[k] >>
        /\ \A k, m \in 1..Len(writes) : k < m => writes[k].pos < writes[m].pos)
  /\ [][/\ \A j \in Positions :
             j # idx => (calls'[j] = calls[j] /\ sleeps'[j] = sleeps[j])
        /\ writes' # writes =>
             (writes' = Append(writes, writes'[Len(writes')])
              /\ writes'[Len(writes')].pos = idx)
        /\ idx' # idx =>
             (idx' = idx + 1 /\ pc = "for" /\ calls' = calls /\ sleeps' = sleeps
              /\ writes' = writes)]_vars

C11_Witness ==
  /\ total = 2
  /\ idx = 2
  /\ pc = "exited"
  /\ Len(calls[1]) = 2
  /\ Len(sleeps[1]) = 1
  /\ WritesOf(1) # { }
  /\ Len(calls[2]) = 2
  /\ WritesOf(2) # { }
  /\ Len(ProgressLines) = 2

\* the completion line "All done." has been printed
CompletionReported == \E k \in 1..Len(stdout) : stdout[k] = << "alldone" >>

\* C12 (as stated): every finished run that started processing files has
\* reported completion, also when a fatal failure ended it early.
C12_Original ==
  (pc = "exited" /\ idx >= 1) => CompletionReported

\* C12 (amended): a finished run that started processing files has reported
\* completion, once and as its last line, exactly when the loop went through
\* every discovered file (exit status 0, failed files included when
\* continue-on-error is true); a run ended early by a fatal failure with
\* continue-on-error false reports no completion.
C12_CompletionOnlyAtLoopEnd ==
  /\ CompletionReported =>
       /\ pc = "exited"
       /\ stdout[Len(stdout)] = << "alldone" >>
       /\ \A k \in 1..(Len(stdout) - 1) : stdout[k] # << "alldone" >>
  /\ (pc = "exited" /\ idx >= 1) =>
       /\ CompletionReported <=> (exitStatus = Some(0) /\ idx = total)
       /\ ~CompletionReported <=>
            (~continue_on_error /\ exitStatus = Some(1) /\ FatalFailure(idx))

C12_Witness ==
  /\ pc = "exited"
  /\ continue_on_error
  /\ total = 2
  /\ FatalFailure(1)
  /\ WritesOf(2) # { }
  /\ CompletionReported

\* C13 (as stated): a file whose budget is exhausted by rate-limit/quota
\* errors has slept one time fewer than it called the transcription: the
\* failure that finds the budget exhausted is followed by no sleep.
C13_NoSleepOnExhaustion ==
  \A i \in Started :
    (calls[i] # << >> /\ RetriesExhausted(i)) =>
      Len(sleeps[i]) = Len(calls[i]) - 1

\* the message holds the characters 4, 2, 9 next to each other
Has429(m) ==
  \E k \in 1..Len(m) :
    k + 2 <= Len(m) /\ m[k] = "4" /\ m[k + 1] = "2" /\ m[k + 2] = "9"

\* the message holds the word quota, each letter in either case
HasQuotaAnyCase(m) ==
  \E k \in 1..Len(m) :
    /\ k + 4 <= Len(m)
    /\ m[k] \in { "q", "Q" }
    /\ m[k + 1] \in { "u", "U" }
    /\ m[k + 2] \in { "o", "O" }
    /\ m[k + 3] \in { "t", "T" }
    /\ m[k + 4] \in { "a", "A" }

\* the k-th call of the file at position i was handled as retryable: a
\* backoff sleep followed it
HandledAsRetryable(i, k) == Len(sleeps[i]) >= k

\* C14: a failed call is handled as retryable exactly when its message
\* contains "429" or, in any letter case, "quota" -- whatever the
\* continue-on-error flag.
C14_Classification ==
  \A i \in Started :
    \A k \in 1..Len(calls[i]) :
      ~calls[i][k].ok =>
        (HandledAsRetryable(i, k) <=>
           (Has429(calls[i][k].val) \/ HasQuotaAnyCase(calls[i][k].val)))

C14_Witness ==
  /\ Len(calls[1]) = 1
  /\ calls[1][1].val = << "Q", "u", "o", "t", "a" >>
  /\ Len(sleeps[1]) = 1
  /\ ~continue_on_error
  /\ pc = "while"

\* C15: every file starts with the full budget, the configured delay and no
\* transcript, whatever the earlier files did, and the parsed arguments
\* never change.
C15_PerFileRetryState ==
  /\ []((idx >= 1 /\ pc = "while" /\ calls[idx] = << >>) =>
          (retries = max_retries /\ backoff = delay /\ transcript = None))
  /\ [][idx' # idx =>
          (retries' = max_retries /\ backoff' = delay /\ transcript' = None)]_vars
  /\ [][sourceKind' = sourceKind /\ max_retries' = max_retries /\ delay' = delay
        /\ continue_on_error' = continue_on_error]_vars

C15_Witness ==
  /\ idx = 2
  /\ pc = "while"
  /\ calls[2] = << >>
  /\ Len(calls[1]) = 3
  /\ Len(sleeps[1]) = 3
  /\ delay = 1
  /\ retries = 3
  /\ backoff = 1

\* the "Failed to transcribe" lines printed so far, in order
FailedLines == SelectSeq(stdout, LAMBDA line : line[1] = "failed")

\* C16: with max-retries zero or negative no call, sleep or write is ever
\* made and every file the loop reaches is reported as failed; the run ends
\* with status 1 at the first file when continue-on-error is false, and with
\* status 0 after all files, without any transcript, when it is true.
C16_NoBudget ==
  max_retries <= 0 =>
    /\ NoWorkDone
    /\ \A i \in Started : Resolved(i) => Len(FailedLines) >= i
    /\ \A k \in 1..Len(FailedLines) :
         FailedLines[k] = << "failed", audio_files[k].stem, max_retries >>
    /\ (pc = "exited" /\ total >= 1) =>
         IF continue_on_error
           THEN exitStatus = Some(0) /\ idx = total /\ Len(FailedLines) = total
           ELSE exitStatus = Some(1) /\ idx = 1 /\ Len(FailedLines) = 1

C16_Witness ==
  /\ max_retries = 0 - 1
  /\ continue_on_error
  /\ total = 2
  /\ pc = "exited"
  /\ exitStatus = Some(0)
  /\ Len(FailedLines) = 2

\* the last call for the file at position i returned the empty text
EmptySuccess(i) ==
  /\ calls[i] # << >>
  /\ LastCall(i).ok
  /\ LastCall(i).val = ""

\* the files reached so far whose calls did not end with a returned text
Unsuccessful == { j \in Started : calls[j] = << >> \/ ~LastCall(j).ok }

\* C17: a call that returns the empty text is a success: it is the file's
\* last call, the file gets one transcript with empty content, and it is
\* neither reported as failed nor a cause of exit status 1.
C17_EmptyTextIsSuccess ==
  /\ \A i \in Started :
       \A k \in 1..Len(calls[i]) : calls[i][k].ok => k = Len(calls[i])
  /\ \A i \in Started :
       (EmptySuccess(i) /\ Resolved(i)) =>
         \E k \in WritesOf(i) :
           /\ WritesOf(i) = { k }
           /\ writes[k].content = ""
           /\ writes[k].path = OutPath(audio_files[i])
  /\ Len(FailedLines) <= Cardinality(Unsuccessful)
  /\ (pc = "exited" /\ exitStatus = Some(1) /\ idx >= 1) => idx \in Unsuccessful

C17_Witness ==
  /\ ~continue_on_error
  /\ pc = "exited"
  /\ exitStatus = Some(0)
  /\ total = 2
  /\ EmptySuccess(1)
  /\ Len(calls[1]) = 2
  /\ EmptySuccess(2)
  /\ Len(writes) = 2
  /\ FailedLines = << >>

RECURSIVE CallsUpTo(_)
CallsUpTo(n) == IF n <= 0 THEN 0 ELSE Len(calls[n]) + CallsUpTo(n - 1)

\* the number of transcription calls made in the run so far
TotalCalls == CallsUpTo(MaxFiles)

\* C18 (as stated, its bounds): the run's calls are at most
\* (discovered files) * max-retries and no file sleeps more than max-retries
\* times.
C18_Original ==
  /\ TotalCalls <= total * max_retries
  /\ \A i \in Started : Len(sleeps[i]) <= max_retries

\* C18 (amended): every run terminates when each call and each sleep
\* returns; the run's calls are at most (discovered files) *
\* max(max-retries, 0) and no file sleeps more than max(max-retries, 0)
\* times.
C18_TerminatesBounded ==
  /\ <>(pc = "exited")
  /\ [](TotalCalls <= total * Max(max_retries, 0))
  /\ [](\A i \in Positions : Len(sleeps[i]) <= Max(max_retries, 0))

C18_Witness ==
  /\ pc = "exited"
  /\ continue_on_error
  /\ max_retries = 3
  /\ total = 2
  /\ TotalCalls = 6
  /\ Len(sleeps[1]) = 3
  /\ Len(sleeps[2]) = 3

====
